---- MODULE Spec2Model ----
(***************************************************************************)
(* Model of mysql_connection_pool/connection.py: the class-level singleton *)
(* pool of MySQLConnectionPool, its lock-guarded one-time construction,    *)
(* and the query operations execute, execute_safe, fetchone, fetchall and  *)
(* commit_execute, each followed statement by statement.                   *)
(*                                                                         *)
(* The driver's pool (mysql.connector.pooling) is the queue `queue` of     *)
(* connection numbers: get_connection() takes the head without blocking    *)
(* and raises PoolError when the queue is empty; closing a pooled          *)
(* connection appends it to the queue again.                               *)
(***************************************************************************)
EXTENDS Integers, Sequences, FiniteSets, TLC

\* Number of concurrent caller threads.
NThreads == 2
\* Largest pool_size a construction call may pass.
MaxPoolSize == 2

Threads == 1..NThreads
PoolSizes == 1..MaxPoolSize

\* The parameters of a construction call that matter here: dictionary and
\* pool_size (connection.py:38,40).
Params == [dictionary : BOOLEAN, pool_size : PoolSizes]
NoParams == [dictionary |-> TRUE, pool_size |-> 0]

\* _pool = None (connection.py:27)
NoPool == [id |-> 0, pool_size |-> 0]

Ops == {"__init__", "execute", "execute_safe", "fetchone", "fetchall", "commit_execute"}
SafeOps == {"execute_safe", "fetchone", "fetchall", "commit_execute"}
QueryOps == SafeOps \cup {"execute"}

VARIABLES
    _pool,        \* class attribute _pool: NoPool or the pool object
    _lock,        \* class attribute _lock: 0 (free) or the thread holding it
    _dictionary,  \* class attribute _dictionary
    queue,        \* the pool's queue of available connections
    instance,     \* some construction call has returned an instance
    pc,           \* each thread's position in the method it runs
    op,           \* the method each thread runs ("" when idle)
    args,         \* the parameters of the thread's construction call
    conn,         \* local `conn`: the connection its handle wraps, 0 if none/closed
    cursor,       \* local `cursor`: "none", "open" or "closed"
    exc,          \* the exception propagating out of the method, "none" if none
    result,       \* "value" once the return value was computed, else "none"
    log,          \* the driver calls this invocation made so far, in order
    owned,        \* connections the caller received from execute and has not closed
    lost,         \* connections whose handle was dropped without close()
    first,        \* history: parameters of the first construction call
    builtBy,      \* history: parameters of the call that built _pool
    nbuilt        \* history: number of pools built

vars == <<_pool, _lock, _dictionary, queue, instance, pc, op, args, conn, cursor,
          exc, result, log, owned, lost, first, builtBy, nbuilt>>

classVars == <<_pool, _lock, _dictionary>>
histVars == <<first, builtBy, nbuilt>>
localVars == <<conn, cursor, result, owned, lost>>

Init ==
    /\ _pool = NoPool
    /\ _lock = 0
    /\ _dictionary = TRUE
    /\ queue = <<>>
    /\ instance = FALSE
    /\ pc = [t \in Threads |-> "idle"]
    /\ op = [t \in Threads |-> ""]
    /\ args = [t \in Threads |-> NoParams]
    /\ conn = [t \in Threads |-> 0]
    /\ cursor = [t \in Threads |-> "none"]
    /\ exc = [t \in Threads |-> "none"]
    /\ result = [t \in Threads |-> "none"]
    /\ log = [t \in Threads |-> <<>>]
    /\ owned = [t \in Threads |-> {}]
    /\ lost = {}
    /\ first = NoParams
    /\ builtBy = NoParams
    /\ nbuilt = 0

Has(s, e) == \E i \in 1..Len(s) : s[i] = e
Count(s, e) == Cardinality({i \in 1..Len(s) : s[i] = e})
Pos(s, e) == CHOOSE i \in 1..Len(s) : s[i] = e
Range(s) == {s[i] : i \in 1..Len(s)}

---------------------------------------------------------------------------
(* MySQLConnectionPool.__init__                                            *)

\* The with statement entered without waiting for the lock.
LockFree_Unguarded == TRUE

\* `with MySQLConnectionPool._lock:` can be entered when the lock is free.
LockFree == _lock = 0

\* The pool rebuilt by every construction call.
PoolIsNone_Always == TRUE

\* `if MySQLConnectionPool._pool is None:`
PoolIsNone == _pool = NoPool

\* A pool holding one connection more than pool_size.
NewQueue_OneMore(size) == [i \in 1..(size + 1) |-> i]

\* mysql.connector.pooling.MySQLConnectionPool(**config): pool_size connections
\* are opened and queued.
NewQueue(size) == [i \in 1..size |-> i]

\* A thread calls MySQLConnectionPool(dictionary=..., pool_size=...).
CtorCall(t) ==
    /\ pc[t] = "idle"
    /\ \E p \in Params : args' = [args EXCEPT ![t] = p]
    /\ op' = [op EXCEPT ![t] = "__init__"]
    /\ pc' = [pc EXCEPT ![t] = "lock"]
    /\ UNCHANGED <<classVars, queue, instance, localVars, exc, log, histVars>>

\* __enter__ of the lock.
CtorLock(t) ==
    /\ pc[t] = "lock"
    /\ LockFree
    /\ _lock' = t
    /\ first' = IF first = NoParams THEN args[t] ELSE first
    /\ pc' = [pc EXCEPT ![t] = "check"]
    /\ log' = [log EXCEPT ![t] = Append(@, "lock")]
    /\ UNCHANGED <<_pool, _dictionary, queue, instance, op, args, localVars, exc,
                   builtBy, nbuilt>>

\* The test of line 61: build, or leave the with block at once.
CtorCheck(t) ==
    /\ pc[t] = "check"
    /\ pc' = [pc EXCEPT ![t] = IF PoolIsNone THEN "setdict" ELSE "unlock"]
    /\ UNCHANGED <<classVars, queue, instance, op, args, localVars, exc, log, histVars>>

\* The flag left at its default whatever the call passed.
DictionaryOf_Default(p) == TRUE

\* The value line 62 stores: the call's own `dictionary` argument.
DictionaryOf(p) == p.dictionary

\* Line 62.
CtorSetDict(t) ==
    /\ pc[t] = "setdict"
    /\ _dictionary' = DictionaryOf(args[t])
    /\ pc' = [pc EXCEPT ![t] = "build"]
    /\ UNCHANGED <<_pool, _lock, queue, instance, op, args, localVars, exc, log, histVars>>

\* The lock released by hand after the build, and so not when the build raises.
AfterBuild_NoExit(ok) == IF ok THEN "unlock" ELSE "ret"

\* Where line 79 leads: the build is the last statement of the with block, whose
\* __exit__ runs whether the build returned or raised.
AfterBuild(ok) == "unlock"

\* Line 79: the driver builds the pool, or raises (the server is unreachable,
\* the credentials are refused) and nothing is assigned.
CtorBuild(t) ==
    /\ pc[t] = "build"
    /\ \E ok \in BOOLEAN :
         /\ IF ok
            THEN /\ _pool' = [id |-> nbuilt + 1, pool_size |-> args[t].pool_size]
                 /\ queue' = NewQueue(args[t].pool_size)
                 /\ builtBy' = args[t]
                 /\ nbuilt' = nbuilt + 1
                 /\ log' = [log EXCEPT ![t] = Append(@, "build")]
                 /\ UNCHANGED exc
            ELSE /\ exc' = [exc EXCEPT ![t] = "Error"]
                 /\ UNCHANGED <<_pool, queue, builtBy, nbuilt, log>>
         /\ pc' = [pc EXCEPT ![t] = AfterBuild(ok)]
    /\ UNCHANGED <<_lock, _dictionary, instance, op, args, localVars, first>>

\* __exit__ of the lock, on the normal and on the raising path alike.
CtorUnlock(t) ==
    /\ pc[t] = "unlock"
    /\ _lock' = 0
    /\ pc' = [pc EXCEPT ![t] = "ret"]
    /\ UNCHANGED <<_pool, _dictionary, queue, instance, op, args, localVars, exc, log,
                   histVars>>

---------------------------------------------------------------------------
(* The driver's pool: get_connection() and the pooled connection's close() *)

\* get_connection() finds no queued connection: queue.get(block=False) raises
\* and the driver turns it into PoolError at once, without waiting.
Exhausted(q) == q = <<>>

\* The head handed out and left in the queue.
Take_Peek(q) == [cnx |-> Head(q), rest |-> q]

\* get_connection() takes the connection at the head of the queue.
Take(q) == [cnx |-> Head(q), rest |-> Tail(q)]

\* A connection that could not be re-established is queued again before the
\* error is raised.
Requeue(q) == Append(Tail(q), Head(q))

\* close() of a pooled connection: the pool's add_connection(cnx).
Release(q, c) == Append(q, c)

---------------------------------------------------------------------------
(* Control flow of the query operations                                    *)

\* commit_execute without its conn.commit().
AfterExecute_NoCommit(o, rows) ==
    CASE o = "execute"        -> "ret"
      [] o = "commit_execute" -> "exit"
      [] o = "execute_safe"   -> IF rows THEN "fetch" ELSE "exit"
      [] OTHER                -> "fetch"

\* execute closing its connection before it returns, as the other four do.
AfterExecute_RawCloses(o, rows) ==
    CASE o = "execute"        -> "finally"
      [] o = "commit_execute" -> "commit"
      [] o = "execute_safe"   -> IF rows THEN "fetch" ELSE "exit"
      [] OTHER                -> "fetch"

\* What follows cursor.execute() in each method: execute returns (cursor, conn);
\* commit_execute commits; execute_safe fetches if the statement produced rows
\* (cursor.with_rows); fetchone and fetchall fetch.
AfterExecute(o, rows) ==
    CASE o = "execute"        -> "ret"
      [] o = "commit_execute" -> "commit"
      [] o = "execute_safe"   -> IF rows THEN "fetch" ELSE "exit"
      [] OTHER                -> "fetch"

\* The statement reached when the driver call at position p returns.
NextPc(o, p, rows) ==
    CASE p = "acquire" -> "cursor"
      [] p = "cursor"  -> "execute"
      [] p = "execute" -> AfterExecute(o, rows)
      [] p = "fetch"   -> "exit"
      [] p = "commit"  -> "exit"
      [] p = "exit"    -> "finally"
      [] p = "finally" -> "ret"

\* The four methods without their finally clause and with block.
RaisePc_NoFinally(o, p) == "ret"

\* _get_connection() called inside the try, so that the finally clause runs
\* when it raises.
RaisePc_AcquireInTry(o, p) ==
    CASE p = "acquire" -> IF o \in SafeOps THEN "finally" ELSE "ret"
      [] p = "cursor"  -> IF o \in SafeOps THEN "finally" ELSE "ret"
      [] OTHER         -> IF o \in SafeOps THEN "exit" ELSE "ret"

\* The cursor closed by hand at the end of the body instead of by a with block:
\* a raising call goes straight to the finally clause.
RaisePc_NoWith(o, p) ==
    CASE p = "acquire" -> "ret"
      [] OTHER         -> IF o \in SafeOps THEN "finally" ELSE "ret"

\* commit_execute committing in its cleanup, also after a failed execution.
RaisePc_CommitAnyway(o, p) ==
    CASE p = "acquire" -> "ret"
      [] p = "cursor"  -> IF o \in SafeOps THEN "finally" ELSE "ret"
      [] p = "execute" /\ o = "commit_execute" -> "commit"
      [] OTHER         -> IF o \in SafeOps THEN "exit" ELSE "ret"

\* The statement reached when the driver call at position p raises: nothing
\* catches in execute; in the other four the with block closes the cursor it
\* opened and the finally clause closes the connection. _get_connection() is
\* called before the try, so its error leaves the method at once.
RaisePc(o, p) ==
    CASE p = "acquire" -> "ret"
      [] p = "cursor"  -> IF o \in SafeOps THEN "finally" ELSE "ret"
      [] OTHER         -> IF o \in SafeOps THEN "exit" ELSE "ret"

\* A fetch error caught and dropped.
ExcOf_FetchSwallowed(p) ==
    CASE p = "cursor"  -> "CursorError"
      [] p = "execute" -> "QueryError"
      [] p = "fetch"   -> "none"
      [] p = "commit"  -> "CommitError"

\* A commit error caught and dropped.
ExcOf_CommitSwallowed(p) ==
    CASE p = "cursor"  -> "CursorError"
      [] p = "execute" -> "QueryError"
      [] p = "fetch"   -> "FetchError"
      [] p = "commit"  -> "none"

\* The error the caller sees when the call at position p raises: no method has
\* an except clause, so it is the driver's own error.
ExcOf(p) ==
    CASE p = "cursor"  -> "CursorError"
      [] p = "execute" -> "QueryError"
      [] p = "fetch"   -> "FetchError"
      [] p = "commit"  -> "CommitError"

\* The return expression has been evaluated once the body is left normally.
Returns(p) == p \in {"exit", "ret"}

\* One driver call of the body (cursor(), execute(), fetch*(), commit()) at
\* position p by thread t: it returns or it raises.
BodyStep(t, p, cur) ==
    /\ pc[t] = p
    /\ \E ok \in BOOLEAN, rows \in BOOLEAN :
         IF ok
         THEN /\ pc' = [pc EXCEPT ![t] = NextPc(op[t], p, rows)]
              /\ log' = [log EXCEPT ![t] = Append(@, p)]
              /\ cursor' = [cursor EXCEPT ![t] = cur]
              /\ result' = [result EXCEPT ![t] =
                               IF Returns(NextPc(op[t], p, rows)) THEN "value" ELSE @]
              /\ UNCHANGED exc
         ELSE /\ pc' = [pc EXCEPT ![t] = RaisePc(op[t], p)]
              /\ log' = [log EXCEPT ![t] = Append(Append(@, p), "raise")]
              /\ exc' = [exc EXCEPT ![t] = ExcOf(p)]
              /\ UNCHANGED <<cursor, result>>
    /\ UNCHANGED <<classVars, queue, instance, op, args, conn, owned, lost, histVars>>

---------------------------------------------------------------------------
(* The query operations                                                    *)

\* Every method entering `with MySQLConnectionPool._lock`.
NeedsLock_All(o) == TRUE

\* The methods that enter `with MySQLConnectionPool._lock`: __init__ alone.
NeedsLock(o) == o = "__init__"

\* The names the class defines (connection.py:27-239).
Attributes ==
    {"_pool", "_lock", "_dictionary", "__init__", "_get_connection", "execute",
     "execute_safe", "fetchone", "fetchall", "commit_execute", "lastrowid", "rowcount"}

\* MySQLConnectionPool.get_instance(), as example/create_table.py and
\* example/insert_users.py call it: the class defines no such name, so the
\* attribute lookup raises before anything is called.
GetInstance(t) ==
    /\ pc[t] = "idle"
    /\ "get_instance" \notin Attributes
    /\ op' = [op EXCEPT ![t] = "get_instance"]
    /\ exc' = [exc EXCEPT ![t] = "AttributeError"]
    /\ pc' = [pc EXCEPT ![t] = "ret"]
    /\ UNCHANGED <<classVars, queue, instance, args, localVars, log, histVars>>

\* A thread calls one of the five query methods on an instance.
Call(t) ==
    /\ pc[t] = "idle"
    /\ instance
    /\ \E o \in QueryOps : op' = [op EXCEPT ![t] = o]
    /\ pc' = [pc EXCEPT ![t] = "acquire"]
    /\ UNCHANGED <<classVars, queue, instance, args, localVars, exc, log, histVars>>

\* conn = self._get_connection()
GetConnection(t) ==
    /\ pc[t] = "acquire"
    /\ NeedsLock(op[t]) => LockFree
    /\ IF Exhausted(queue)
       THEN /\ exc' = [exc EXCEPT ![t] = "PoolError"]
            /\ pc' = [pc EXCEPT ![t] = RaisePc(op[t], "acquire")]
            /\ log' = [log EXCEPT ![t] = Append(@, "raise")]
            /\ UNCHANGED <<queue, conn>>
       ELSE \E ok \in BOOLEAN :
              IF ok
              THEN /\ conn' = [conn EXCEPT ![t] = Take(queue).cnx]
                   /\ queue' = Take(queue).rest
                   /\ pc' = [pc EXCEPT ![t] = NextPc(op[t], "acquire", FALSE)]
                   /\ log' = [log EXCEPT ![t] = Append(@, "acquire")]
                   /\ UNCHANGED exc
              ELSE /\ queue' = Requeue(queue)
                   /\ exc' = [exc EXCEPT ![t] = "InterfaceError"]
                   /\ pc' = [pc EXCEPT ![t] = RaisePc(op[t], "acquire")]
                   /\ log' = [log EXCEPT ![t] = Append(@, "raise")]
                   /\ UNCHANGED conn
    /\ UNCHANGED <<classVars, instance, op, args, cursor, result, owned, lost, histVars>>

\* conn.cursor(dictionary=self._dictionary)
Cursor(t) == BodyStep(t, "cursor", "open")

\* cursor.execute(query, params or ())
Execute(t) == BodyStep(t, "execute", cursor[t])

\* cursor.fetchone() / cursor.fetchall()
Fetch(t) == BodyStep(t, "fetch", cursor[t])

\* conn.commit()
Commit(t) == BodyStep(t, "commit", cursor[t])

\* __exit__ of `with conn.cursor(...) as cursor`: the cursor is closed.
CursorExit(t) ==
    /\ pc[t] = "exit"
    /\ cursor' = [cursor EXCEPT ![t] = "closed"]
    /\ log' = [log EXCEPT ![t] = Append(@, "cursor_close")]
    /\ pc' = [pc EXCEPT ![t] = NextPc(op[t], "exit", FALSE)]
    /\ UNCHANGED <<classVars, queue, instance, op, args, conn, exc, result, owned, lost,
                   histVars>>

\* finally: conn.close() hands the connection back to the pool.
ConnClose(t) ==
    /\ pc[t] = "finally"
    /\ queue' = Release(queue, conn[t])
    /\ conn' = [conn EXCEPT ![t] = 0]
    /\ log' = [log EXCEPT ![t] = Append(@, "release")]
    /\ pc' = [pc EXCEPT ![t] = NextPc(op[t], "finally", FALSE)]
    /\ UNCHANGED <<classVars, instance, op, args, cursor, exc, result, owned, lost,
                   histVars>>

\* The method returns to its caller or its exception reaches the caller. A
\* construction call that did not raise yields an instance; execute hands its
\* open connection to the caller; a connection still open in a method that
\* raised is referenced by nobody any more.
Return(t) ==
    /\ pc[t] = "ret"
    /\ instance' = (instance \/ (op[t] = "__init__" /\ exc[t] = "none"))
    /\ owned' = [owned EXCEPT ![t] =
                    IF conn[t] # 0 /\ exc[t] = "none" THEN @ \cup {conn[t]} ELSE @]
    /\ lost' = IF conn[t] # 0 /\ exc[t] # "none" THEN lost \cup {conn[t]} ELSE lost
    /\ pc' = [pc EXCEPT ![t] = "idle"]
    /\ op' = [op EXCEPT ![t] = ""]
    /\ args' = [args EXCEPT ![t] = NoParams]
    /\ conn' = [conn EXCEPT ![t] = 0]
    /\ cursor' = [cursor EXCEPT ![t] = "none"]
    /\ exc' = [exc EXCEPT ![t] = "none"]
    /\ result' = [result EXCEPT ![t] = "none"]
    /\ log' = [log EXCEPT ![t] = <<>>]
    /\ UNCHANGED <<classVars, queue, histVars>>

\* The caller of execute closes a connection it was handed (conn.close() of the
\* docstring's example).
CallerClose(t) ==
    /\ pc[t] = "idle"
    /\ \E c \in owned[t] :
         /\ queue' = Release(queue, c)
         /\ owned' = [owned EXCEPT ![t] = @ \ {c}]
    /\ UNCHANGED <<classVars, instance, pc, op, args, conn, cursor, exc, result, log,
                   lost, histVars>>

---------------------------------------------------------------------------

Next ==
    \E t \in Threads :
        \/ CtorCall(t)
        \/ CtorLock(t)
        \/ CtorCheck(t)
        \/ CtorSetDict(t)
        \/ CtorBuild(t)
        \/ CtorUnlock(t)
        \/ GetInstance(t)
        \/ Call(t)
        \/ GetConnection(t)
        \/ Cursor(t)
        \/ Execute(t)
        \/ Fetch(t)
        \/ Commit(t)
        \/ CursorExit(t)
        \/ ConnClose(t)
        \/ Return(t)
        \/ CallerClose(t)

Spec == Init /\ [][Next]_vars

\* A thread calls execute_safe, fetchone, fetchall or commit_execute.
CallSafe(t) ==
    /\ pc[t] = "idle"
    /\ instance
    /\ \E o \in SafeOps : op' = [op EXCEPT ![t] = o]
    /\ pc' = [pc EXCEPT ![t] = "acquire"]
    /\ UNCHANGED <<classVars, queue, instance, args, localVars, exc, log, histVars>>

\* The program whose callers never use execute.
SafeNext ==
    \E t \in Threads :
        \/ CtorCall(t)
        \/ CtorLock(t)
        \/ CtorCheck(t)
        \/ CtorSetDict(t)
        \/ CtorBuild(t)
        \/ CtorUnlock(t)
        \/ CallSafe(t)
        \/ GetConnection(t)
        \/ Cursor(t)
        \/ Execute(t)
        \/ Fetch(t)
        \/ Commit(t)
        \/ CursorExit(t)
        \/ ConnClose(t)
        \/ Return(t)

\* A thread inside a query method takes its next step: every driver call
\* returns or raises, and the interpreter goes on to the with block's exit, the
\* finally clause and the return.
Progress(t) ==
    \/ GetConnection(t)
    \/ Cursor(t)
    \/ Execute(t)
    \/ Fetch(t)
    \/ Commit(t)
    \/ CursorExit(t)
    \/ ConnClose(t)
    \/ Return(t)

FairSafeSpec == Init /\ [][SafeNext]_vars /\ \A t \in Threads : WF_vars(Progress(t))

---------------------------------------------------------------------------
(* Properties                                                              *)

IsCtor(t) == op[t] = "__init__"

\* C1 as stated: after any construction calls, the pool and the dictionary flag
\* in effect are those of the first call P1.
C1_FirstCallWins ==
    _pool # NoPool =>
        /\ builtBy = first
        /\ _pool.pool_size = first.pool_size
        /\ _dictionary = first.dictionary

\* C1, amended: once a construction call has built the pool, every step of every
\* later construction call, whatever its parameters, leaves the class-level pool
\* reference and the dictionary flag unchanged.
C1_BuiltPoolIsKept ==
    [][_pool # NoPool => (_pool' = _pool /\ _dictionary' = _dictionary)]_vars

\* A construction call with parameters other than the builder's has run to its
\* end on an existing pool.
C1_Witness ==
    \E t \in Threads :
        /\ IsCtor(t) /\ pc[t] = "ret" /\ exc[t] = "none"
        /\ _pool # NoPool
        /\ args[t].dictionary # builtBy.dictionary
        /\ args[t].pool_size # builtBy.pool_size
        /\ ~Has(log[t], "build")

\* C2: concurrent first construction calls build the pool once: at most one
\* thread at a time is past the `_pool is None` test, at most one pool is ever
\* built, and the pool every thread sees is that one.
C2_BuiltOnce ==
    /\ Cardinality({t \in Threads : pc[t] \in {"check", "setdict", "build", "unlock"}}) <= 1
    /\ nbuilt <= 1
    /\ (_pool # NoPool => _pool.id = 1 /\ nbuilt = 1)
    /\ (nbuilt = 1 => _pool # NoPool)

\* Two construction calls in flight together have both ended: one built the
\* pool, the other found it.
C2_Witness ==
    \E t, u \in Threads :
        /\ t # u /\ IsCtor(t) /\ IsCtor(u)
        /\ pc[t] = "ret" /\ Has(log[t], "build")
        /\ pc[u] = "ret" /\ log[u] = <<"lock">> /\ exc[u] = "none"

\* The invocation of thread t acquired a connection.
Acquired(t) == Has(log[t], "acquire")

\* The driver call e of thread t's invocation raised.
Failed(t, e) == \E i \in 1..(Len(log[t]) - 1) : log[t][i] = e /\ log[t][i + 1] = "raise"

\* The connections held outside the queue: by a method in flight, by the
\* caller of execute, or by nobody any more.
Handles ==
    {<<"method", t, conn[t]>> : t \in {u \in Threads : conn[u] # 0}}
      \cup {<<"caller", x[1], x[2]>> : x \in {y \in Threads \X (1..(MaxPoolSize + 2)) : y[2] \in owned[y[1]]}}
      \cup {<<"lost", 0, c>> : c \in lost}

\* C3: an invocation of execute_safe, fetchone, fetchall or commit_execute that
\* acquired a connection has released it exactly once when it ends, whatever
\* the outcome, and never releases twice.
C3_ReleasedExactlyOnce ==
    \A t \in Threads :
        op[t] \in SafeOps =>
            /\ Count(log[t], "release") <= 1
            /\ (pc[t] = "ret" /\ Acquired(t) =>
                   /\ Count(log[t], "release") = 1
                   /\ conn[t] = 0)
            /\ (pc[t] = "ret" /\ ~Acquired(t) => Count(log[t], "release") = 0)

\* An invocation whose fetch raised, and one whose cursor creation raised, have
\* ended with the connection released.
C3_Witness ==
    \E t, u \in Threads :
        /\ pc[t] = "ret" /\ op[t] \in SafeOps /\ Failed(t, "fetch")
        /\ Count(log[t], "release") = 1
        /\ pc[u] = "ret" /\ op[u] \in SafeOps /\ Failed(u, "cursor")
        /\ Count(log[u], "release") = 1

\* C4: a commit_execute that succeeds has committed before it releases, and
\* from the statement's execution to the commit the connection is nobody
\* else's: not in the queue, not in another method, not with a caller.
C4_CommitBeforeRelease ==
    \A t \in Threads :
        op[t] = "commit_execute" =>
            /\ (Has(log[t], "release") /\ exc[t] = "none" =>
                   /\ Has(log[t], "commit")
                   /\ Pos(log[t], "commit") < Pos(log[t], "release"))
            /\ (pc[t] = "commit" =>
                   /\ conn[t] # 0
                   /\ conn[t] \notin Range(queue)
                   /\ \A u \in Threads : (u # t => conn[u] # conn[t]) /\ conn[t] \notin owned[u])

\* A commit_execute has returned its result, committed and released.
C4_Witness ==
    \E t \in Threads :
        /\ op[t] = "commit_execute" /\ pc[t] = "ret"
        /\ exc[t] = "none" /\ result[t] = "value"
        /\ Has(log[t], "commit") /\ Has(log[t], "release")

\* C5: at most pool_size connections are checked out at any time.
C5_AtMostPoolSize == Cardinality(Handles) <= _pool.pool_size

\* Two methods in flight hold the two connections of a pool of size 2.
C5_Witness ==
    /\ _pool.pool_size = 2
    /\ Cardinality(Handles) = 2
    /\ \A t \in {1, 2} : conn[t] # 0

\* C6 as stated: an acquire does not fail with the pool-exhausted error while
\* a connection is held by a method that is about to release it.
C6_WaitsForRelease ==
    [][\A t \in Threads :
          (pc[t] = "acquire" /\ exc'[t] = "PoolError") =>
              ~\E u \in Threads : u # t /\ conn[u] # 0 /\ op[u] \in SafeOps]_vars

\* C7: no connection is held twice, and none is both checked out and available.
C7_ExclusiveOwnership ==
    /\ \A t, u \in Threads :
          /\ (t # u /\ conn[t] # 0 => conn[t] # conn[u])
          /\ (conn[t] # 0 => conn[t] \notin owned[u])
          /\ (t # u => owned[t] \cap owned[u] = {})
          /\ (conn[t] # 0 => conn[t] \notin lost)
          /\ owned[t] \cap lost = {}
    /\ \A x \in Handles : x[3] \notin Range(queue)
    /\ Cardinality(Range(queue)) = Len(queue)

\* Two fetchone calls in flight hold the two connections of the pool, one each,
\* and none is left in the queue.
C7_Witness ==
    \E t, u \in Threads :
        /\ t # u /\ op[t] = "fetchone" /\ op[u] = "fetchone"
        /\ conn[t] = 2 /\ conn[u] = 1 /\ pc[t] = "fetch" /\ pc[u] = "fetch"
        /\ queue = <<>>

C9_RawReleasesOnError ==
    \A t \in Threads :
        (op[t] = "execute" /\ pc[t] = "ret" /\ Acquired(t) /\ exc[t] # "none") =>
            /\ conn[t] = 0
            /\ Has(log[t], "release")

\* C10: when execute returns, its connection is still checked out and goes to
\* the caller with the open cursor; nothing released it, and it stays out of
\* the queue while the caller has it. No other method ends with an open
\* connection.
C10_RawKeepsConnection ==
    /\ \A t \in Threads :
          (op[t] = "execute" /\ pc[t] = "ret" /\ exc[t] = "none") =>
              /\ conn[t] # 0
              /\ conn[t] \notin Range(queue)
              /\ cursor[t] = "open"
              /\ result[t] = "value"
              /\ ~Has(log[t], "release")
    /\ \A t \in Threads : owned[t] \cap Range(queue) = {}
    /\ \A t \in Threads : (op[t] \in SafeOps /\ pc[t] = "ret") => conn[t] = 0

\* A caller holds the connection execute returned, and another thread's acquire
\* has failed for want of it.
C10_Witness ==
    \E t, u \in Threads :
        /\ t # u /\ owned[t] # {}
        /\ pc[u] = "ret" /\ exc[u] = "PoolError"
        /\ \E v \in Threads : op[v] = "execute" /\ pc[v] = "ret" /\ exc[v] = "none"

\* C11 as stated: get_instance() fails when no construction call has returned
\* an instance, and otherwise returns the singleton; it never builds a pool.
C11_GetInstance ==
    \A t \in Threads :
        (op[t] = "get_instance" /\ pc[t] = "ret") =>
            /\ (~instance => exc[t] # "none" /\ result[t] = "none")
            /\ (instance => exc[t] = "none")
            /\ ~Has(log[t], "build")

\* The driver call e of thread t's invocation raised the error k, or did not
\* raise.
RaisedAs(t, e, k) == Failed(t, e) => (exc[t] = k /\ result[t] = "none" /\ conn[t] = 0)

C13_FailedAcquireIsNoOp ==
    /\ [][\A t \in Threads :
             (pc[t] = "acquire" /\ exc'[t] # "none") =>
                 /\ pc'[t] = "ret"
                 /\ Range(queue') = Range(queue)
                 /\ Len(queue') = Len(queue)
                 /\ Handles' = Handles]_vars
    /\ [](\A t \in Threads :
             (op[t] \in QueryOps /\ pc[t] # "idle" /\ ~Acquired(t) /\ exc[t] # "none") =>
                 /\ pc[t] = "ret"
                 /\ log[t] = <<"raise">>
                 /\ conn[t] = 0 /\ cursor[t] = "none" /\ result[t] = "none")

\* An acquire has failed on an exhausted pool, and one on a connection that
\* could not be re-established with another connection queued behind it.
C13_Witness ==
    \E t, u \in Threads :
        /\ pc[t] = "ret" /\ exc[t] = "PoolError"
        /\ pc[u] = "ret" /\ exc[u] = "InterfaceError" /\ Len(queue) = 2

\* The cursor of thread t's invocation was created.
CursorCreated(t) == Has(log[t], "cursor") /\ ~Failed(t, "cursor")

Conns == 1..MaxPoolSize

\* C15: when callers use only execute_safe, fetchone, fetchall and
\* commit_execute and every thread inside a method keeps taking steps, a
\* connection a method acquired is eventually back in the queue; and whenever
\* no method is in flight the queue holds all pool_size connections.
C15_EventuallyReleased ==
    /\ \A t \in Threads : \A c \in Conns :
          (op[t] \in SafeOps /\ conn[t] = c) ~> (c \in Range(queue))
    /\ []((\A t \in Threads : pc[t] = "idle" \/ op[t] \notin SafeOps) =>
             (Len(queue) = _pool.pool_size /\ Cardinality(Range(queue)) = Len(queue)))

\* Both threads are inside a method, each holding a connection of a pool of
\* two, one of them after a failed execution.
C15_Witness ==
    \E t, u \in Threads :
        /\ t # u /\ op[t] \in SafeOps /\ op[u] \in SafeOps
        /\ conn[t] # 0 /\ conn[u] # 0
        /\ Failed(t, "execute") /\ pc[t] = "finally"

\* Thread t takes a step inside a query method, its call and return included.
QueryStep(t) == (op[t] \in QueryOps \/ op'[t] \in QueryOps) /\ pc'[t] # pc[t]

\* C16: no step of a query method changes the class-level pool reference, the
\* dictionary flag or the lock, and a query method in flight can always take
\* its next step, whoever holds the initialisation lock.
C16_QueriesLeaveClassState ==
    /\ [][\A t \in Threads : QueryStep(t) => classVars' = classVars]_vars
    /\ [](\A t \in Threads :
             (op[t] \in QueryOps /\ pc[t] # "idle") => ENABLED Progress(t))

\* A query method is about to acquire on a built pool while another thread's
\* construction call holds the lock.
C16_Witness ==
    \E t, u \in Threads :
        /\ op[t] \in QueryOps /\ pc[t] = "acquire"
        /\ _pool # NoPool
        /\ IsCtor(u) /\ _lock = u /\ pc[u] = "check"

\* C17: commit_execute calls commit only after its statement executed without
\* error; when cursor creation or execution raised, the connection is released
\* without a commit.
C17_CommitOnlyAfterExecute ==
    \A t \in Threads :
        op[t] = "commit_execute" =>
            /\ (Has(log[t], "commit") =>
                   /\ Has(log[t], "execute")
                   /\ Pos(log[t], "execute") < Pos(log[t], "commit")
                   /\ ~Failed(t, "execute")
                   /\ CursorCreated(t))
            /\ ((Failed(t, "cursor") \/ Failed(t, "execute")) /\ Has(log[t], "release") =>
                   ~Has(log[t], "commit"))
            /\ (pc[t] = "commit" => exc[t] = "none")

\* A commit_execute whose execution raised has released its connection, and
\* another has reached its commit.
C17_Witness ==
    \E t, u \in Threads :
        /\ op[t] = "commit_execute" /\ Failed(t, "execute") /\ Has(log[t], "release")
        /\ op[u] = "commit_execute" /\ Has(log[u], "commit")

\* C18: whenever the pool exists, the dictionary flag is the one passed to the
\* construction call that built it, whatever calls failed before.
C18_FlagIsBuilders ==
    _pool # NoPool => _dictionary = builtBy.dictionary

\* The pool was built with dictionary=False after a first call with
\* dictionary=True had failed to build it.
C18_Witness ==
    /\ _pool # NoPool
    /\ first.dictionary /\ first # builtBy
    /\ ~builtBy.dictionary /\ ~_dictionary

\* The positions of __init__ inside the with block.
InWith == {"check", "setdict", "build", "unlock"}

\* C19: a construction call whose build raises releases the lock and leaves
\* the pool unset: the lock is held only by a call inside its with block, a
\* waiting call can enter whenever no call is inside, and a call past the test
\* that found no pool builds with its own parameters.
C19_FailedBuildFreesLock ==
    /\ [][\A t \in Threads :
             (pc[t] = "build" /\ exc'[t] # "none") => (_pool' = NoPool /\ pc'[t] = "unlock")]_vars
    /\ [](\A t \in Threads :
             /\ (_lock = t => (IsCtor(t) /\ pc[t] \in InWith))
             /\ (pc[t] \in InWith => _lock = t)
             /\ ((pc[t] = "lock" /\ \A u \in Threads : pc[u] \notin InWith) =>
                    ENABLED CtorLock(t))
             /\ (pc[t] \in {"setdict", "build"} => _pool = NoPool)
             /\ (IsCtor(t) /\ pc[t] = "ret" /\ exc[t] # "none" => ~Has(log[t], "build")))
    /\ [][\A t \in Threads :
             (pc[t] = "build" /\ _pool' # NoPool) =>
                 (_pool'.pool_size = args[t].pool_size /\ builtBy' = args[t])]_vars

\* After one call's build has raised, another call with other parameters holds
\* the lock and is about to build.
C19_Witness ==
    \E t, u \in Threads :
        /\ IsCtor(u) /\ pc[u] = "ret" /\ exc[u] = "Error"
        /\ IsCtor(t) /\ pc[t] = "build" /\ _lock = t
        /\ args[t] # args[u] /\ _pool = NoPool

====
